---------------------------- MODULE Spec2Model ----------------------------
(***************************************************************************)
(* A model of ghproxy/ghcache: the GitHub caching transport.               *)
(*                                                                         *)
(*   Partitioning Router -> Request Coalescer -> httpcache.Transport       *)
(*     -> throttlingTransport -> upstreamTransport -> upstream delegate    *)
(*                                                                         *)
(* plus the partition metadata files and the Prune sweep.                  *)
(*                                                                         *)
(* Nine specifications share the module, each leaving the variables of    *)
(* the others alone:                                                       *)
(*   SpecHeaders      the pure header functions (cacheResponseMode and the *)
(*                    header rewrite of upstreamTransport.RoundTrip),      *)
(*   SpecPrune        writecachePartitionMetadata, the disk store's writes *)
(*                    and Prune over the cache directory,                  *)
(*   SpecPruneFaults  the same, with sweeps that meet an I/O error,        *)
(*   SpecFound        Prune over a cache directory as it finds it,         *)
(*   SpecDisk         disk partitions created for any header value,        *)
(*   SpecLegacy       NewDiskCache without partitioning,                   *)
(*   Spec             concurrent requests through one transport chain per  *)
(*                    partition key, with the memory backend,              *)
(*   SpecRedis        the same, with the Redis backend,                    *)
(*   SpecFair         the requests of one partition, fairly scheduled.     *)
(*                                                                         *)
(* Strings are sequences of tokens, so that strings.Contains and           *)
(* strings.HasPrefix are computed and not assumed.                         *)
(***************************************************************************)
EXTENDS Integers, Sequences, FiniteSets, TLC

VARIABLES
    \* SpecHeaders
    hreq,       \* the request handed to upstreamTransport.RoundTrip
    hup,        \* what the upstream delegate answers
    hout,       \* what upstreamTransport.RoundTrip returns
    hmode,      \* cacheResponseMode of the classified headers
    hpc,        \* "in" | "policy" | "classified"
    \* SpecPrune
    fs,         \* the cache directory: [Roots \X PartitionKeys -> directory]
    clock,      \* the injected clock, in ticks
    sweep,      \* the Prune sweep that just ran: its time, fault and fs before
    part,       \* the disk partitions of this process: [key -> partition]
    lastWrite,  \* the write of the request path that just ran
    diskCache,  \* the one disk store of the legacy mode, and whether it is on
    \* Spec
    backend,    \* the cache backend: "mem" | "redis"
    R,          \* the requests: [Reqs -> request record]
    registry,   \* the router's map: is a chain registered for the key
    built,      \* how many chains were constructed for the key
    live,       \* the coalescer's keys map: [key -> [coalescing key -> executor]]
    store,      \* the cache stores: [store -> entry]
    sem,        \* the semaphore of each chain: permits held
    queue,      \* the semaphore of each chain: waiters, first in first out
    pending,    \* pendingOutboundConnectionsGauge
    inflight    \* outboundConcurrencyGauge

hvars == <<hreq, hup, hout, hmode, hpc>>
pvars == <<fs, clock, sweep, part, lastWrite, diskCache>>
rvars == <<backend, R, registry, built, live, store, sem, queue, pending, inflight>>
vars == <<hvars, pvars, rvars>>

-----------------------------------------------------------------------------
(* Strings                                                                 *)

Empty == <<>>

\* strings.Contains(s, substr)
Contains(s, substr) ==
    \E i \in 1..(Len(s) + 1) :
        /\ i + Len(substr) - 1 <= Len(s)
        /\ SubSeq(s, i, i + Len(substr) - 1) = substr

\* strings.HasPrefix(s, prefix)
HasPrefix(s, prefix) ==
    /\ Len(s) >= Len(prefix)
    /\ SubSeq(s, 1, Len(prefix)) = prefix

NoStore == <<"no-store">>
NoCache == <<"no-cache">>
GitHubDefaultCacheControl == <<"private", "max-age=60", "s-maxage=60">>
PrivateNoStore == <<"private", "no-store">>
NotModifiedStatus == <<"304", "Not", "Modified">>
OKStatus == <<"200", "OK">>
NotFoundStatus == <<"404", "Not", "Found">>
ServerErrorStatus == <<"500", "Internal", "Server", "Error">>

\* http.StatusNotModified, and the first status upstreamTransport does not store.
StatusNotModified == 304
StatusErrorFloor == 400

\* The Status header GitHub sends along with a status code.
StatusText(code) ==
    CASE code = 200 -> OKStatus
      [] code = StatusNotModified -> NotModifiedStatus
      [] code = 404 -> NotFoundStatus
      [] OTHER -> ServerErrorStatus

-----------------------------------------------------------------------------
(* Response Classifier                                                     *)

ModeError == "ERROR"
ModeNoStore == "NO-STORE"
ModeMiss == "MISS"
ModeChanged == "CHANGED"
ModeCoalesced == "COALESCED"
ModeRevalidated == "REVALIDATED"

\* A header set: the five headers the cache reads or writes. A header that is
\* not set is Empty, as http.Header.Get returns "".
Header(cc, st, xc, date, etag) ==
    [CacheControl |-> cc, Status |-> st, XConditionalRequest |-> xc,
     XProwRequestDate |-> date, ETag |-> etag]

\* Mutant: the status is looked at before Cache-Control.
cacheResponseMode_statusFirst(headers) ==
    IF Contains(headers.Status, NotModifiedStatus) THEN ModeRevalidated
    ELSE IF Contains(headers.CacheControl, NoStore) THEN ModeNoStore
    ELSE IF headers.XConditionalRequest # Empty THEN ModeChanged
    ELSE ModeMiss

cacheResponseMode(headers) ==
    IF Contains(headers.CacheControl, NoStore) THEN ModeNoStore
    ELSE IF Contains(headers.Status, NotModifiedStatus) THEN ModeRevalidated
    ELSE IF headers.XConditionalRequest # Empty THEN ModeChanged
    ELSE ModeMiss

-----------------------------------------------------------------------------
(* Upstream Policy Transport: the header rewrite                           *)

GraphqlPath == <<"graphql">>
SlashGraphqlPath == <<"/", "graphql">>
ReposPath == <<"/", "repos">>
ReposGraphqlPath == <<"/", "repos", "/", "graphql">>
GraphqlSubPath == <<"/", "graphql", "/", "x">>

\* Mutant: only the path without a leading slash is looked for.
IsGraphql_noSlash(path) == HasPrefix(path, GraphqlPath)

\* strings.HasPrefix(req.URL.Path, "graphql") || strings.HasPrefix(req.URL.Path, "/graphql")
IsGraphql(path) == HasPrefix(path, GraphqlPath) \/ HasPrefix(path, SlashGraphqlPath)

\* strconv.Itoa(int(time.Now().Unix())): the decimal text of the clock's second.
UnixStamp == <<"unix-seconds">>

\* Mutant: no-cache is not forced on a success, GitHub's Cache-Control stays.
policyCacheControl_keepUpstream(resp) ==
    IF resp.code >= StatusErrorFloor THEN NoStore ELSE resp.hdr.CacheControl

\* resp.Header.Set("Cache-Control", ...) by status.
policyCacheControl(resp) ==
    IF resp.code >= StatusErrorFloor THEN NoStore ELSE NoCache

\* Mutant: the creation date is stamped on a 304 too.
policyCreationDate_always(resp) ==
    IF resp.code >= StatusErrorFloor THEN resp.hdr.XProwRequestDate ELSE UnixStamp

\* resp.Header.Set(cacheEntryCreationDateHeader, ...) by status.
policyCreationDate(resp) ==
    IF resp.code >= StatusErrorFloor THEN resp.hdr.XProwRequestDate
    ELSE IF resp.code # StatusNotModified THEN UnixStamp
    ELSE resp.hdr.XProwRequestDate

\* Mutant: the conditional-request marker is never stamped.
upstreamRewrite_noMarker(req, resp) ==
    LET h1 == [resp.hdr EXCEPT !.CacheControl = policyCacheControl(resp),
                               !.XProwRequestDate = policyCreationDate(resp)]
        h3 == IF IsGraphql(req.path) THEN [h1 EXCEPT !.CacheControl = NoStore] ELSE h1
    IN  [code |-> resp.code, hdr |-> h3]

\* upstreamTransport.RoundTrip after a delegate call that returned resp, nil.
upstreamRewrite(req, resp) ==
    LET etag == req.ifNoneMatch
        h1 == [resp.hdr EXCEPT !.CacheControl = policyCacheControl(resp),
                               !.XProwRequestDate = policyCreationDate(resp)]
        h2 == IF etag # Empty THEN [h1 EXCEPT !.XConditionalRequest = etag] ELSE h1
        h3 == IF IsGraphql(req.path) THEN [h2 EXCEPT !.CacheControl = NoStore] ELSE h2
    IN  [code |-> resp.code, hdr |-> h3]

-----------------------------------------------------------------------------
(* SpecHeaders                                                             *)

ETag1 == <<"W/e1">>

HPaths == {GraphqlPath, SlashGraphqlPath, ReposPath, ReposGraphqlPath, GraphqlSubPath}
HTokens == {Empty, ETag1}
HCodes == {200, StatusNotModified, StatusErrorFloor - 1, StatusErrorFloor, 404, 500}
HCacheControls == {Empty, NoStore, NoCache, GitHubDefaultCacheControl, PrivateNoStore}
HStatuses == {Empty, OKStatus, NotModifiedStatus, NotFoundStatus}
HMarkers == {Empty, ETag1}

NoResponse == [code |-> 0, hdr |-> Header(Empty, Empty, Empty, Empty, Empty)]

InitHeaders ==
    /\ hreq \in [path : HPaths, ifNoneMatch : HTokens]
    /\ hup \in [code : HCodes,
                hdr : {Header(cc, st, xc, Empty, Empty) :
                          cc \in HCacheControls, st \in HStatuses, xc \in HMarkers}]
    /\ hout = NoResponse
    /\ hmode = "none"
    /\ hpc = "in"

\* cacheResponseMode applied to the headers as they are.
Classify ==
    /\ hpc = "in"
    /\ hmode' = cacheResponseMode(hup.hdr)
    /\ hpc' = "classified"
    /\ UNCHANGED <<hreq, hup, hout, pvars, rvars>>

\* upstreamTransport.RoundTrip, then cacheResponseMode of what it returns.
Policy ==
    /\ hpc = "in"
    /\ hout' = upstreamRewrite(hreq, hup)
    /\ hmode' = cacheResponseMode(hout'.hdr)
    /\ hpc' = "policy"
    /\ UNCHANGED <<hreq, hup, pvars, rvars>>

NextHeaders == Classify \/ Policy

-----------------------------------------------------------------------------
(* Partition metadata and the Pruner                                       *)

\* Time is counted in ticks; a second has TicksPerSec of them. The clock and
\* the expiry of a token range over 0..MaxTick.
TicksPerSec == 2
MaxTick == 3

Ticks == 0..MaxTick
Roots == {"data", "temp"}
PartitionKeys == {"k1", "k2"}
Dirs == Roots \X PartitionKeys

\* A partition key is a header value, any text: besides the keys that are a
\* directory name there is one that is a path with a dot-dot element.
DotDotKey == "k2/../k1"
HeaderKeys == PartitionKeys \cup {DotDotKey}

\* The elements of a key between its slashes.
Elements(key) == IF key = DotDotKey THEN <<"k2", "..", "k1">> ELSE <<key>>

\* path.Clean over the elements joined to a directory: a dot is dropped, a
\* dot-dot drops the element before it.
RECURSIVE Clean(_, _)
Clean(stack, elems) ==
    IF elems = <<>> THEN stack
    ELSE IF Head(elems) = "." THEN Clean(stack, Tail(elems))
    ELSE IF Head(elems) = ".." /\ stack # <<>>
         THEN Clean(SubSeq(stack, 1, Len(stack) - 1), Tail(elems))
    ELSE Clean(Append(stack, Head(elems)), Tail(elems))

\* path.Join(cacheDir, "data", partitionKey) and path.Join(cacheDir, "temp",
\* partitionKey), as a path below cacheDir.
partitionDir(root, key) == <<root>> \o Clean(<<>>, Elements(key))

\* The content of a .cache_metadata.json: no file, a file that is not JSON
\* (a short write), or {"expires_at": "<RFC3339, to the second>"}.
NoMeta == [k |-> "none", sec |-> 0]
MalformedMeta == [k |-> "malformed", sec |-> 0]
JsonMeta(sec) == [k |-> "json", sec |-> sec]

\* A file that parses and holds no expiry: {} or {"expires_at": null}.
\* json.Unmarshal leaves ExpiresAt the zero time.Time, which is before every
\* reading of the clock.
ZeroTimeSec == 0 - 1
NullMeta == [k |-> "null", sec |-> ZeroTimeSec]

\* A path under data/ or temp/: nothing, or a directory with its metadata file.
Absent == [kind |-> "absent", meta |-> NoMeta]
Dir(meta) == [kind |-> "dir", meta |-> meta]

\* Mutant: the time is rounded to the next second, not cut.
MarshalTime_roundsUp(t) == (t + TicksPerSec - 1) \div TicksPerSec

\* json.Marshal of metav1.Time: time.RFC3339 keeps whole seconds.
MarshalTime(t) == t \div TicksPerSec
\* json.Unmarshal into metav1.Time: the instant the text names.
UnmarshalTime(sec) == sec * TicksPerSec

\* os.MkdirAll(destBase): nil when the directory exists or was created.
MkdirAll(d, fault) ==
    IF d.kind = "dir" THEN [dir |-> d, err |-> FALSE]
    ELSE IF fault = "mkdirFail" THEN [dir |-> d, err |-> TRUE]
    ELSE [dir |-> Dir(NoMeta), err |-> FALSE]

\* ioutil.WriteFile(dest, serialized): fails without a directory; a failed open
\* leaves the file as it was, a short write leaves a truncated file.
WriteFile(d, serialized, fault) ==
    IF d.kind # "dir" THEN [dir |-> d, err |-> TRUE]
    ELSE IF fault = "openFail" THEN [dir |-> d, err |-> TRUE]
    ELSE IF fault = "shortWrite" THEN [dir |-> Dir(MalformedMeta), err |-> TRUE]
    ELSE [dir |-> Dir(serialized), err |-> FALSE]

WriteFaults == {"ok", "mkdirFail", "openFail", "shortWrite"}
\* The faults of one call: at most one destination meets one.
WriteFaultPairs == {f \in [Roots -> WriteFaults] : \E r \in Roots : f[r] = "ok"}

\* One round of the loop of writecachePartitionMetadata over a destination.
WriteDest(d, serialized, fault) ==
    LET m == MkdirAll(d, fault)
        w == WriteFile(m.dir, serialized, fault)
    IN  [dir |-> w.dir, err |-> m.err \/ w.err]

\* writecachePartitionMetadata(basePath, tempDir, expiresAt) over the file
\* system f; expiresAt = -1 is the nil pointer. faults: root -> fault.
NilTime == 0 - 1

\* Mutant: the first destination that fails ends the call.
writecachePartitionMetadata_returnsAtError(f, key, expiresAt, faults) ==
    IF expiresAt = NilTime THEN [fs |-> f, err |-> FALSE]
    ELSE LET serialized == JsonMeta(MarshalTime(expiresAt))
             basePath == partitionDir("data", key)
             tempDir == partitionDir("temp", key)
             b == WriteDest(f[basePath], serialized, faults["data"])
             t == WriteDest(f[tempDir], serialized, faults["temp"])
         IN  IF b.err THEN [fs |-> [f EXCEPT ![basePath] = b.dir], err |-> TRUE]
             ELSE [fs |-> [f EXCEPT ![basePath] = b.dir, ![tempDir] = t.dir],
                   err |-> t.err]

writecachePartitionMetadata(f, key, expiresAt, faults) ==
    IF expiresAt = NilTime THEN [fs |-> f, err |-> FALSE]
    ELSE LET serialized == JsonMeta(MarshalTime(expiresAt))
             basePath == partitionDir("data", key)
             tempDir == partitionDir("temp", key)
             b == WriteDest(f[basePath], serialized, faults["data"])
             t == WriteDest(f[tempDir], serialized, faults["temp"])
         IN  [fs |-> [f EXCEPT ![basePath] = b.dir, ![tempDir] = t.dir],
              err |-> b.err \/ t.err]

\* The faults of one sweep. os.ReadDir of one root fails and returns the
\* entries it read before the error: any of the root's entries may be missing
\* ("unlisted"). Or one directory's metadata file cannot be read ("readFail"),
\* or one directory cannot be removed ("rmFail").
PruneFaultKinds == {"unlisted", "readFail", "rmFail"}
NoFault == [kind |-> "none", dirs |-> {}]
PruneFaults ==
    {NoFault}
      \cup {[kind |-> "unlisted", dirs |-> {root} \X lost] :
               root \in Roots, lost \in (SUBSET PartitionKeys) \ {{}}}
      \cup {[kind |-> k, dirs |-> {d}] : k \in {"readFail", "rmFail"}, d \in Dirs}
FaultAt(fault, d, kind) == fault.kind = kind /\ d \in fault.dirs

\* Mutant: the expiry test is the wrong way round.
expired_inverted(meta, now) == UnmarshalTime(meta.sec) > now

\* Mutant: an expiry equal to the clock does not count.
expired_strictlyBefore(meta, now) == UnmarshalTime(meta.sec) < now

\* !metadata.ExpiresAt.After(now())
expired(meta, now) == ~(UnmarshalTime(meta.sec) > now)

\* The body of Prune's inner loop for the entry d of os.ReadDir(base).
pruneCandidate(f, d, now, fault) ==
    IF f[d].kind # "dir" THEN f[d]                       \* !IsDir(): continue
    ELSE IF FaultAt(fault, d, "unlisted") THEN f[d]      \* os.ReadDir: partial result
    ELSE IF f[d].meta.k = "none" \/ FaultAt(fault, d, "readFail")
         THEN f[d]                                        \* ReadFile failed: continue
    ELSE IF f[d].meta.k = "malformed" THEN f[d]          \* Unmarshal failed: continue
    ELSE IF ~expired(f[d].meta, now) THEN f[d]
    ELSE IF FaultAt(fault, d, "rmFail") THEN f[d]        \* os.RemoveAll failed: logged
    ELSE Absent

\* Mutant: an error ends the sweep, the temp root is not looked at.
Prune_returnsOnError(f, now, fault) ==
    [d \in Dirs |-> IF fault.kind # "none" /\ d[1] = "temp" THEN f[d]
                    ELSE pruneCandidate(f, d, now, fault)]

\* Prune(baseDir, now): both roots, every candidate.
Prune(f, now, fault) == [d \in Dirs |-> pruneCandidate(f, d, now, fault)]

NoSweep == [n |-> 0, at |-> 0, fault |-> NoFault,
            pre |-> [d \in Dirs |-> Absent]]

\* A partition of this process: is its disk store created, and the BasePath
\* and TempDir of that store, under cacheDir.
NoPartition == [open |-> FALSE, base |-> <<>>, temp |-> <<>>]

\* The files a disk store holds are named after the request they answer.
Urls == {"u1", "u2"}

\* legacyDisablePartitioningByAuthHeader is false: no disk store is made by
\* NewDiskCache itself.
NoDiskCache == [legacy |-> FALSE, files |-> {}]

\* The last write to the cache directory by the request path: a partition's
\* creation ("create") or a write of its store ("store").
NoWrite == [op |-> "none", key |-> "none", expiresAt |-> NilTime,
            faults |-> [r \in Roots |-> "ok"], err |-> FALSE, wasOpen |-> FALSE]

InitPrune ==
    /\ fs = [d \in Dirs |-> Absent]
    /\ clock = 0
    /\ sweep = NoSweep
    /\ part = [k \in HeaderKeys |-> NoPartition]
    /\ lastWrite = NoWrite
    /\ diskCache = NoDiskCache

-----------------------------------------------------------------------------
(* The request path                                                        *)

NReq == 2
MaxConcurrency == 1

Reqs == 1..NReq
Tokens == {Empty, ETag1}

EmptyHeader == Header(Empty, Empty, Empty, Empty, Empty)

\* What a RoundTrip returns: a response (its status, its headers, the owner of
\* its body buffer and the upstream call that produced the body) or an error.
NoResult == [kind |-> "none", code |-> 0, hdr |-> EmptyHeader, buf |-> 0, call |-> 0,
             err |-> "none", pk |-> "none"]
Resp(code, hdr, buf, call) ==
    [kind |-> "resp", code |-> code, hdr |-> hdr, buf |-> buf, call |-> call,
     err |-> "none", pk |-> "none"]
Err(what, call) ==
    [kind |-> "err", code |-> 0, hdr |-> EmptyHeader, buf |-> 0, call |-> call,
     err |-> what, pk |-> "none"]

\* A cache entry is the dump of a response: bytes, no buffer of its own, and
\* read back from the cache it is no upstream call's body. Of an entry the
\* model keeps the partition key of the request that stored it (pk).
NoEntry == NoResult
Entry(resp, key) == [resp EXCEPT !.buf = 0, !.call = 0, !.pk = key]

\* The stores there can be: one of each partition key, and the Redis server.
SharedStore == "shared"
StoreIds == PartitionKeys \cup {SharedStore}

\* Mutant: a store of its own for every key, whatever the backend.
storeOf_perKey(be, key) == key

\* The store the creator hands to the chain of a key: NewMemCache's creator
\* makes a httpcache.NewMemoryCache() at each call, NewRedisCache's returns the
\* one redisCache.
storeOf(be, key) == IF be = "redis" THEN SharedStore ELSE key

IdleReq ==
    [pc |-> "idle", key |-> "none", token |-> Empty, chain |-> 0, leader |-> 0,
     outTok |-> Empty, cached |-> NoEntry, resp |-> NoResult, toStore |-> FALSE,
     mode |-> "none", hit |-> FALSE, calls |-> 0, upCode |-> 0, stored |-> FALSE,
     lookedEmpty |-> FALSE, removed |-> 0, cancelled |-> FALSE]

Min(a, b) == IF a < b THEN a ELSE b

InitChains ==
    /\ R = [r \in Reqs |-> IdleReq]
    /\ registry = [k \in HeaderKeys |-> FALSE]
    /\ built = [k \in HeaderKeys |-> 0]
    /\ live = [k \in PartitionKeys |-> [t \in Tokens |-> 0]]
    /\ store = [k \in StoreIds |-> NoEntry]
    /\ sem = [k \in PartitionKeys |-> 0]
    /\ queue = [k \in PartitionKeys |-> <<>>]
    /\ pending = 0
    /\ inflight = 0

\* NewMemCache
InitReq == backend = "mem" /\ InitChains

\* NewRedisCache
InitRedis == backend = "redis" /\ InitChains

\* A request arrives; requests are numbered in the order of their arrival, and
\* the partition key of the first one is the one called k1.
Start(r, key, token) ==
    /\ R[r].pc = "idle"
    /\ \A q \in Reqs : q < r => R[q].pc # "idle"
    /\ r = 1 => key = "k1"
    /\ R' = [R EXCEPT ![r].pc = "route", ![r].key = key, ![r].token = token]
    /\ UNCHANGED <<registry, built, live, store, sem, queue, pending, inflight, backend, hvars, pvars>>

(* Partitioning Router *)

\* Mutant: NewFromCache hands out the cache transport, not the coalescer.
chainHead_noCoalescer == "cache"

\* The RoundTripper NewFromCache's creator returns: the requestCoalescer, whose
\* delegate is the cache transport.
chainHead == "coalesce"

\* Mutant: the second look, under the write lock, is left out.
constructNeeded_noRecheck(key) == TRUE

\* The second look at the registry, under the write lock.
constructNeeded(key) == ~registry[key]

\* httpcache.NewMemoryCache(): the creator of NewMemCache makes a new, empty store.
newStore(key) == NoEntry

\* The stores after the creator was called for key: a new store with the
\* memory backend; with Redis the server's content is what it was.
createStore(be, key, st) ==
    IF be = "redis" THEN st ELSE [st EXCEPT ![storeOf(be, key)] = newStore(key)]

\* The first look at the registry, under the read lock.
RouterLookup(r) ==
    /\ R[r].pc = "route"
    /\ R' = IF registry[R[r].key]
              THEN [R EXCEPT ![r].pc = chainHead, ![r].chain = built[R[r].key]]
              ELSE [R EXCEPT ![r].pc = "construct", ![r].lookedEmpty = TRUE]
    /\ UNCHANGED <<registry, built, live, store, sem, queue, pending, inflight, backend, hvars, pvars>>

\* Under the write lock: look again, construct the chain (the creator handed
\* over by NewFromCache) and register it.
RouterConstruct(r) ==
    LET key == R[r].key IN
    /\ R[r].pc = "construct"
    /\ IF constructNeeded(key)
         THEN /\ registry' = [registry EXCEPT ![key] = TRUE]
              /\ built' = [built EXCEPT ![key] = @ + 1]
              /\ store' = createStore(backend, key, store)
              /\ live' = [live EXCEPT ![key] = [t \in Tokens |-> 0]]
              /\ sem' = [sem EXCEPT ![key] = 0]
              /\ queue' = [queue EXCEPT ![key] = <<>>]
         ELSE UNCHANGED <<registry, built, store, live, sem, queue>>
    /\ R' = [R EXCEPT ![r].pc = chainHead, ![r].chain = built'[key]]
    /\ UNCHANGED <<pending, inflight, backend, hvars, pvars>>

(* Request Coalescer *)

\* The coalescing key: method and URL are the same for every request of the
\* model, the conditional token is what tells requests apart.
coalescingKey(r) == R[r].token

\* The executor in flight for the coalescing key, 0 when there is none.
inFlight(key, ck) == live[key][ck]

\* Where a request goes when the cache transport returns: back to the
\* coalescer when one wraps it.
afterCache(r) == IF R[r].leader # 0 THEN "complete" ELSE "respond"

\* Register as a waiter of the request in flight, or as the executor.
CoalescerEnter(r) ==
    LET key == R[r].key
        ck == coalescingKey(r)
        e == inFlight(key, ck)
    IN  /\ R[r].pc = "coalesce"
        /\ IF e # 0
             THEN /\ R' = [R EXCEPT ![r].pc = "wait", ![r].leader = e]
                  /\ UNCHANGED live
             ELSE /\ R' = [R EXCEPT ![r].pc = "cache", ![r].leader = r]
                  /\ live' = [live EXCEPT ![key][ck] = r]
        /\ UNCHANGED <<registry, built, store, sem, queue, pending, inflight, backend, hvars, pvars>>

\* Mutant: an error is not handed on, the waiter fails to read an empty dump.
copyFor_dropsError(res, q) ==
    IF res.kind = "err" THEN Err("parse", 0) ELSE [res EXCEPT !.buf = q]

\* The copy of the executor's outcome a waiter receives: the same error, or a
\* response read back from the dump, with a body of its own.
copyFor(res, q) == IF res.kind = "err" THEN res ELSE [res EXCEPT !.buf = q]

\* What a waiter's response is classified as.
waiterMode(res) == IF res.kind = "err" THEN ModeError ELSE ModeCoalesced

\* Mutant: the key stays in the index.
deregister_never(idx, ck) == idx

\* The key is removed from the live-request index.
deregister(idx, ck) == [idx EXCEPT ![ck] = 0]

\* The delegate returned to the executor: the key is removed, every waiter is
\* handed a copy. Dumping the response for the waiters reads its body to the
\* end, which is when the cache transport stores it.
CoalescerComplete(r) ==
    LET key == R[r].key
        res == R[r].resp
        W == {q \in Reqs : R[q].pc = "wait" /\ R[q].leader = r}
        dump == W # {} /\ R[r].toStore
    IN  /\ R[r].pc = "complete"
        /\ live' = [live EXCEPT ![key] = deregister(@, coalescingKey(r))]
        /\ R' = [q \in Reqs |->
                   IF q = r
                     THEN [R[r] EXCEPT !.pc = "respond",
                                       !.removed = @ + 1,
                                       !.mode = IF res.kind = "err" THEN ModeError
                                                ELSE cacheResponseMode(res.hdr),
                                       !.toStore = IF dump THEN FALSE ELSE @,
                                       !.stored = IF dump THEN TRUE ELSE @]
                   ELSE IF q \in W
                     THEN [R[q] EXCEPT !.pc = "respond",
                                       !.resp = copyFor(res, q),
                                       !.mode = waiterMode(copyFor(res, q))]
                   ELSE R[q]]
        /\ store' = IF dump THEN [store EXCEPT ![storeOf(backend, key)] = Entry(res, key)]
                    ELSE store
        /\ UNCHANGED <<registry, built, sem, queue, pending, inflight, backend, hvars, pvars>>

\* The router returns the response; the client reads the body to its end, which
\* is when the cache transport stores a response it marked for the cache. Of a
\* request that is done the model keeps the outcome's kind, its classification
\* and what the request did.
Respond(r) ==
    /\ R[r].pc = "respond"
    /\ R' = [R EXCEPT ![r].pc = "done",
                      ![r].toStore = FALSE,
                      ![r].stored = R[r].stored \/ R[r].toStore,
                      ![r].resp = [NoResult EXCEPT !.kind = R[r].resp.kind],
                      ![r].lookedEmpty = FALSE,
                      ![r].cancelled = FALSE]
    /\ store' = IF R[r].toStore
                  THEN [store EXCEPT ![storeOf(backend, R[r].key)] = Entry(R[r].resp, R[r].key)]
                ELSE store
    /\ UNCHANGED <<registry, built, live, sem, queue, pending, inflight, backend, hvars, pvars>>

(* The cache transport: httpcache.Transport over the partition's store *)

MaxAge == <<"max-age=60">>

\* getFreshness of a cached response: no-cache is always stale; under a
\* max-age the entry is fresh or stale as its age has it.
Freshness(entry) ==
    IF entry.kind # "resp" THEN {"stale"}
    ELSE IF Contains(entry.hdr.CacheControl, NoCache) THEN {"stale"}
    ELSE IF Contains(entry.hdr.CacheControl, MaxAge) THEN {"fresh", "stale"}
    ELSE {"stale"}

\* canStore: neither side says no-store (the requests carry no Cache-Control).
canStore(hdr) == ~Contains(hdr.CacheControl, NoStore)

\* The end-to-end headers of a 304 replace those of the cached response.
Merge(cachedHdr, newHdr) ==
    [CacheControl |-> IF newHdr.CacheControl # Empty THEN newHdr.CacheControl
                      ELSE cachedHdr.CacheControl,
     Status |-> IF newHdr.Status # Empty THEN newHdr.Status ELSE cachedHdr.Status,
     XConditionalRequest |-> IF newHdr.XConditionalRequest # Empty
                             THEN newHdr.XConditionalRequest
                             ELSE cachedHdr.XConditionalRequest,
     XProwRequestDate |-> IF newHdr.XProwRequestDate # Empty THEN newHdr.XProwRequestDate
                          ELSE cachedHdr.XProwRequestDate,
     ETag |-> IF newHdr.ETag # Empty THEN newHdr.ETag ELSE cachedHdr.ETag]

\* The lookup: a fresh entry is returned as it is; otherwise the entry's
\* validator is added to the request and the request goes on.
CacheLookup(r) ==
    LET entry == store[storeOf(backend, R[r].key)] IN
    /\ R[r].pc = "cache"
    /\ \E fr \in Freshness(entry) :
         R' = IF fr = "fresh"
                THEN [R EXCEPT ![r].pc = afterCache(r),
                               ![r].hit = TRUE,
                               ![r].resp = [entry EXCEPT !.buf = r]]
                ELSE [R EXCEPT ![r].pc = "throttle",
                               ![r].hit = entry.kind = "resp",
                               ![r].cached = entry,
                               ![r].outTok = IF entry.kind = "resp" /\ entry.hdr.ETag # Empty
                                             THEN entry.hdr.ETag ELSE R[r].token]
    /\ UNCHANGED <<registry, built, live, store, sem, queue, pending, inflight, backend, hvars, pvars>>

\* What the cache transport returns for the cached response c and the
\* delegate's outcome u.
cacheResult(c, u, r) ==
    IF u.kind = "err" THEN u
    ELSE IF c.kind = "resp" /\ u.code = StatusNotModified
         THEN Resp(c.code, Merge(c.hdr, u.hdr), r, c.call)
    ELSE u

\* Does the cache transport delete the entry on its way back.
cacheDeletes(c, u) ==
    \/ c.kind = "resp" /\ u.kind = "err"
    \/ c.kind = "resp" /\ u.kind = "resp" /\ u.code # StatusNotModified /\ u.code # 200
    \/ u.kind = "resp" /\ ~canStore(cacheResult(c, u, 0).hdr)

\* The delegate returned to the cache transport.
CacheReturn(r) ==
    LET c == R[r].cached
        u == R[r].resp
        res == cacheResult(c, u, r)
    IN  /\ R[r].pc = "cacheReturn"
        /\ R' = [R EXCEPT ![r].pc = afterCache(r),
                          ![r].resp = res,
                          ![r].cached = NoEntry,
                          ![r].outTok = Empty,
                          ![r].toStore = res.kind = "resp" /\ canStore(res.hdr)]
        /\ store' = IF cacheDeletes(c, u)
                      THEN [store EXCEPT ![storeOf(backend, R[r].key)] = NoEntry]
                    ELSE store
        /\ UNCHANGED <<registry, built, live, sem, queue, pending, inflight, backend, hvars, pvars>>

(* Throttling Transport *)

\* Mutant: the semaphore is made one permit too wide.
semSize_offByOne == MaxConcurrency + 1

\* semaphore.NewWeighted(int64(maxConcurrency))
semSize == MaxConcurrency

\* Mutant: the request's own context is handed to Acquire.
acquireContext_request == "request"

\* The context handed to sem.Acquire.
acquireContext == "background"

\* ctx.Done() is closed: context.Background() is never done.
ctxDone(ctx, r) == ctx = "request" /\ R[r].cancelled

\* pendingOutboundConnectionsGauge.Inc()
ThrottleEnter(r) ==
    /\ R[r].pc = "throttle"
    /\ pending' = pending + 1
    /\ R' = [R EXCEPT ![r].pc = "acquire"]
    /\ UNCHANGED <<registry, built, live, store, sem, queue, inflight, backend, hvars, pvars>>

\* c.sem.Acquire(ctx, 1): a permit at once when one is free and nobody waits,
\* a place in the queue otherwise; on an error the call returns it. With the
\* permit: pending.Dec(), outboundConcurrency.Inc(), on to the delegate.
ThrottleAcquire(r) ==
    LET key == R[r].key IN
    /\ R[r].pc = "acquire"
    /\ IF ctxDone(acquireContext, r)
         THEN /\ R' = [R EXCEPT ![r].pc = "cacheReturn", ![r].resp = Err("context", 0)]
              /\ UNCHANGED <<sem, queue, pending, inflight>>
         ELSE IF sem[key] < semSize /\ queue[key] = <<>>
         THEN /\ sem' = [sem EXCEPT ![key] = @ + 1]
              /\ pending' = pending - 1
              /\ inflight' = inflight + 1
              /\ R' = [R EXCEPT ![r].pc = "upstream"]
              /\ UNCHANGED queue
         ELSE /\ queue' = [queue EXCEPT ![key] = Append(@, r)]
              /\ R' = [R EXCEPT ![r].pc = "blocked"]
              /\ UNCHANGED <<sem, pending, inflight>>
    /\ UNCHANGED <<registry, built, live, store, backend, hvars, pvars>>

\* The caller cancels its request while the request waits for a permit.
\* Acquire returns the context's error when its context is done.
Cancel(r) ==
    LET key == R[r].key IN
    /\ R[r].pc = "blocked"
    /\ ~R[r].cancelled
    /\ IF acquireContext = "request"
         THEN /\ R' = [R EXCEPT ![r].cancelled = TRUE, ![r].pc = "cacheReturn",
                                ![r].resp = Err("context", 0)]
              /\ queue' = [queue EXCEPT ![key] = SelectSeq(@, LAMBDA q : q # r)]
         ELSE /\ R' = [R EXCEPT ![r].cancelled = TRUE]
              /\ UNCHANGED queue
    /\ UNCHANGED <<registry, built, live, store, sem, pending, inflight, backend, hvars, pvars>>

\* Acquire returns to a waiter that was handed a permit.
ThrottleWake(r) ==
    /\ R[r].pc = "granted"
    /\ pending' = pending - 1
    /\ inflight' = inflight + 1
    /\ R' = [R EXCEPT ![r].pc = "upstream"]
    /\ UNCHANGED <<registry, built, live, store, sem, queue, backend, hvars, pvars>>

\* Mutant: the permit is given back after a response only, not after an error.
released_onResponseOnly(res) == IF res.kind = "err" THEN 0 ELSE 1

\* defer c.sem.Release(1): the permits given back when the delegate call has
\* returned res, a response or an error.
released(res) == 1

\* The deferred calls: outboundConcurrencyGauge.Dec() and c.sem.Release(1), which
\* hands the freed permits to the first waiters of the queue.
ThrottleRelease(r) ==
    LET key == R[r].key
        cur == sem[key] - released(R[r].resp)
        n == Min(Len(queue[key]), semSize - cur)
        woken == {queue[key][i] : i \in 1..n}
    IN  /\ R[r].pc = "release"
        /\ inflight' = inflight - 1
        /\ sem' = [sem EXCEPT ![key] = cur + n]
        /\ queue' = [queue EXCEPT ![key] = SubSeq(@, n + 1, Len(@))]
        /\ R' = [q \in Reqs |->
                   IF q = r THEN [R[r] EXCEPT !.pc = "cacheReturn"]
                   ELSE IF q \in woken THEN [R[q] EXCEPT !.pc = "granted"]
                   ELSE R[q]]
        /\ UNCHANGED <<registry, built, live, store, pending, backend, hvars, pvars>>

(* Upstream Policy Transport over the upstream delegate *)

\* What GitHub answers: a transport error (no status) or a status.
TransportError == 0 - 1
UpstreamReplies == {TransportError, 200, StatusNotModified, 404}

\* The headers GitHub sends with a status.
UpstreamHeader(code) ==
    Header(GitHubDefaultCacheControl, StatusText(code), Empty, Empty,
           IF code < StatusErrorFloor THEN ETag1 ELSE Empty)

\* Mutant: the delegate's error is replaced by one of the transport's own.
returnError_wrapped(err) == [err EXCEPT !.err = "wrapped"]

\* if err != nil { ...; return nil, err }
returnError(err) == err

\* upstreamTransport.RoundTrip: the delegate's error as it is, or the response
\* with its headers rewritten.
upstreamRoundTrip(req, reply, r) ==
    IF reply = TransportError THEN returnError(Err("upstream", r))
    ELSE LET out == upstreamRewrite(req, [code |-> reply, hdr |-> UpstreamHeader(reply)])
         IN  Resp(out.code, out.hdr, r, r)

\* The delegate is called, once. GitHub answers 304 to a conditional request only.
UpstreamRoundTrip(r, reply) ==
    /\ R[r].pc = "upstream"
    /\ reply = StatusNotModified => R[r].outTok # Empty
    /\ R' = [R EXCEPT ![r].pc = "release",
                      ![r].calls = @ + 1,
                      ![r].upCode = reply,
                      ![r].resp = upstreamRoundTrip(
                                     [path |-> ReposPath, ifNoneMatch |-> R[r].outTok],
                                     reply, r)]
    /\ UNCHANGED <<registry, built, live, store, sem, queue, pending, inflight, backend, hvars, pvars>>

Next ==
    \/ \E r \in Reqs, key \in PartitionKeys, token \in Tokens : Start(r, key, token)
    \/ \E r \in Reqs : RouterLookup(r)
    \/ \E r \in Reqs : RouterConstruct(r)
    \/ \E r \in Reqs : CoalescerEnter(r)
    \/ \E r \in Reqs : CacheLookup(r)
    \/ \E r \in Reqs : ThrottleEnter(r)
    \/ \E r \in Reqs : ThrottleAcquire(r)
    \/ \E r \in Reqs : Cancel(r)
    \/ \E r \in Reqs : ThrottleWake(r)
    \/ \E r \in Reqs, reply \in UpstreamReplies : UpstreamRoundTrip(r, reply)
    \/ \E r \in Reqs : ThrottleRelease(r)
    \/ \E r \in Reqs : CacheReturn(r)
    \/ \E r \in Reqs : CoalescerComplete(r)
    \/ \E r \in Reqs : Respond(r)

-----------------------------------------------------------------------------
(* The disk partitions: creation, store writes, sweeps                      *)

\* The creator returns diskcache.NewWithDiskv(...) whatever
\* writecachePartitionMetadata returned: its error is logged only.
storeCreated(err) == TRUE

\* The router constructs the chain of a key it has not registered, with the
\* partition creator of NewDiskCache: the metadata is written, whatever the
\* outcome the store is created.
CreatePartition(key, expiresAt, faults) ==
    LET w == writecachePartitionMetadata(fs, key, expiresAt, faults) IN
    /\ constructNeeded(key)
    /\ registry' = [registry EXCEPT ![key] = TRUE]
    /\ built' = [built EXCEPT ![key] = @ + 1]
    /\ fs' = w.fs
    /\ part' = [part EXCEPT ![key] = [open |-> storeCreated(w.err),
                                      base |-> partitionDir("data", key),
                                      temp |-> partitionDir("temp", key)]]
    /\ lastWrite' = [op |-> "create", key |-> key, expiresAt |-> expiresAt,
                     faults |-> faults, err |-> w.err, wasOpen |-> part[key].open]
    /\ sweep' = NoSweep
    /\ UNCHANGED <<clock, diskCache, hvars, backend, R, live, store, sem, queue, pending, inflight>>

\* Mutant: the store writes a metadata file into a directory it creates.
diskvDir_withMetadata(d) == IF d.kind = "dir" THEN d ELSE Dir(JsonMeta(0))

\* diskv creates BasePath and TempDir when it writes, and nothing else in them
\* that Prune reads.
diskvDir(d) == MkdirAll(d, "ok").dir

\* The disk store of a partition writes an entry.
DiskvWrite(key) ==
    /\ part[key].open
    /\ fs' = [fs EXCEPT ![partitionDir("data", key)] = diskvDir(@),
                        ![partitionDir("temp", key)] = diskvDir(@)]
    /\ fs' # fs
    /\ lastWrite' = [NoWrite EXCEPT !.op = "store", !.key = key, !.wasOpen = TRUE]
    /\ sweep' = NoSweep
    /\ UNCHANGED <<clock, part, diskCache, hvars, rvars>>

\* time passes
Tick ==
    /\ clock < MaxTick
    /\ clock' = clock + 1
    /\ sweep' = NoSweep
    /\ lastWrite' = NoWrite
    /\ UNCHANGED <<fs, part, diskCache, hvars, rvars>>

\* One firing of the ticker of NewDiskCache: Prune(cacheDir, time.Now).
PruneSweep(fault) ==
    /\ fs' = Prune(fs, clock, fault)
    /\ sweep' = [n |-> 1, at |-> clock, fault |-> fault, pre |-> fs]
    /\ lastWrite' = NoWrite
    /\ UNCHANGED <<clock, part, diskCache, hvars, rvars>>

\* The sweeps of SpecPrune meet no fault of their own.
NextPrune ==
    \/ \E key \in PartitionKeys, e \in Ticks \cup {NilTime}, faults \in WriteFaultPairs :
          CreatePartition(key, e, faults)
    \/ \E key \in PartitionKeys : DiskvWrite(key)
    \/ Tick
    \/ PruneSweep(NoFault)

\* SpecDisk: partitions are created and written for any header key.
NextDisk ==
    \/ \E key \in HeaderKeys, e \in Ticks \cup {NilTime}, faults \in WriteFaultPairs :
          CreatePartition(key, e, faults)
    \/ \E key \in HeaderKeys : DiskvWrite(key)

\* The sweeps of SpecPruneFaults meet at most one fault each.
NextPruneFaults ==
    \/ \E key \in PartitionKeys, e \in Ticks \cup {NilTime}, faults \in WriteFaultPairs :
          CreatePartition(key, e, faults)
    \/ \E key \in PartitionKeys : DiskvWrite(key)
    \/ Tick
    \/ \E fault \in PruneFaults : PruneSweep(fault)

(* NewDiskCache with legacyDisablePartitioningByAuthHeader                  *)

\* path.Join(cacheDir, "data") and path.Join(cacheDir, "temp"): the roots.
legacyDir(root) == <<root>>

\* What an earlier run without the flag can have left under a root: nothing, a
\* partition directory without metadata, one whose expiry is the start of time.
LeftoverDirs == {Absent, Dir(NoMeta), Dir(JsonMeta(0))}

\* NewDiskCache with the flag set: one diskcache over the roots, made at once.
InitLegacy ==
    /\ fs \in [Dirs -> LeftoverDirs]
    /\ clock = 0
    /\ sweep = NoSweep
    /\ part = [k \in HeaderKeys |-> NoPartition]
    /\ lastWrite = NoWrite
    /\ diskCache = [legacy |-> TRUE, files |-> {}]

\* The creator of the legacy mode: it logs the paths a partition would have had
\* and returns diskCache; expiresAt is not looked at, nothing is written.
CreateLegacy(key, expiresAt) ==
    /\ constructNeeded(key)
    /\ registry' = [registry EXCEPT ![key] = TRUE]
    /\ built' = [built EXCEPT ![key] = @ + 1]
    /\ part' = [part EXCEPT ![key] = [open |-> TRUE,
                                      base |-> legacyDir("data"),
                                      temp |-> legacyDir("temp")]]
    /\ lastWrite' = [NoWrite EXCEPT !.op = "create", !.key = key, !.expiresAt = expiresAt,
                                    !.wasOpen = part[key].open]
    /\ sweep' = NoSweep
    /\ UNCHANGED <<fs, clock, diskCache, hvars, backend, R, live, store, sem, queue,
                   pending, inflight>>

\* The chain of a key stores an entry: diskv writes the file into its BasePath.
LegacyWrite(key, url) ==
    /\ part[key].open
    /\ part[key].base = legacyDir("data")
    /\ diskCache' = [diskCache EXCEPT !.files = @ \cup {url}]
    /\ lastWrite' = [NoWrite EXCEPT !.op = "store", !.key = key, !.wasOpen = TRUE]
    /\ sweep' = NoSweep
    /\ UNCHANGED <<fs, clock, part, hvars, rvars>>

\* Mutant: the pruning goroutine is started before the flag is looked at.
pruneLoopStarted_always(legacy) == TRUE

\* NewDiskCache returns in the legacy branch before it reaches the go
\* statement of the ticker loop.
pruneLoopStarted(legacy) == ~legacy

\* cachePruneInterval passes: the ticker fires, and Prune runs if its loop
\* was started.
Interval ==
    /\ clock < MaxTick
    /\ clock' = clock + 1
    /\ fs' = IF pruneLoopStarted(diskCache.legacy) THEN Prune(fs, clock', NoFault) ELSE fs
    /\ sweep' = NoSweep
    /\ lastWrite' = NoWrite
    /\ UNCHANGED <<part, diskCache, hvars, rvars>>

NextLegacy ==
    \/ \E key \in PartitionKeys, e \in Ticks \cup {NilTime} : CreateLegacy(key, e)
    \/ \E key \in PartitionKeys, url \in Urls : LegacyWrite(key, url)
    \/ Interval

(* Prune over a cache directory it finds                                    *)

\* What Prune can find under a root: nothing, a partition directory without a
\* metadata file, one whose file holds no expiry, one whose file holds the
\* last second of the clock.
FoundDirs == {Absent, Dir(NoMeta), Dir(NullMeta), Dir(JsonMeta(MaxTick \div TicksPerSec))}

InitFound ==
    /\ fs \in [Dirs -> FoundDirs]
    /\ clock = 0
    /\ sweep = NoSweep
    /\ part = [k \in HeaderKeys |-> NoPartition]
    /\ lastWrite = NoWrite
    /\ diskCache = NoDiskCache

NextFound == Tick \/ PruneSweep(NoFault)

-----------------------------------------------------------------------------
(* Specifications                                                          *)

HeadersIdle ==
    /\ hreq = [path |-> ReposPath, ifNoneMatch |-> Empty]
    /\ hup = NoResponse
    /\ hout = NoResponse
    /\ hmode = "none"
    /\ hpc = "off"

PruneIdle == InitPrune

ReqIdle == InitReq

HeadersStart == InitHeaders /\ PruneIdle /\ ReqIdle

SpecHeaders == HeadersStart /\ [][NextHeaders]_vars

PruneStart == InitPrune /\ HeadersIdle /\ ReqIdle

SpecPrune == PruneStart /\ [][NextPrune]_vars

SpecPruneFaults == PruneStart /\ [][NextPruneFaults]_vars

SpecDisk == PruneStart /\ [][NextDisk]_vars

Init == InitReq /\ HeadersIdle /\ PruneIdle

Spec == Init /\ [][Next]_vars

RedisStart == InitRedis /\ HeadersIdle /\ PruneIdle

SpecRedis == RedisStart /\ [][Next]_vars

\* The steps of request r that its goroutine takes by itself once the request
\* has arrived: every handler of the chain, and the delegate call, which
\* terminates. That a request arrives, and that its caller cancels it, is the
\* caller's choice.
chainStep(r) ==
    \/ RouterLookup(r)
    \/ RouterConstruct(r)
    \/ CoalescerEnter(r)
    \/ CacheLookup(r)
    \/ ThrottleEnter(r)
    \/ ThrottleAcquire(r)
    \/ ThrottleWake(r)
    \/ \E reply \in UpstreamReplies : UpstreamRoundTrip(r, reply)
    \/ ThrottleRelease(r)
    \/ CacheReturn(r)
    \/ CoalescerComplete(r)
    \/ Respond(r)

\* Every goroutine that can take a step is scheduled in the end.
Fairness == \A r \in Reqs : WF_vars(chainStep(r))

\* The requests of one partition, which share one throttlingTransport, and an
\* upstream that answers 200 or fails.
ThrottledKey == "k1"
ThrottledReplies == {TransportError, 200}

NextThrottle ==
    \/ \E r \in Reqs, token \in Tokens : Start(r, ThrottledKey, token)
    \/ \E r \in Reqs : RouterLookup(r)
    \/ \E r \in Reqs : RouterConstruct(r)
    \/ \E r \in Reqs : CoalescerEnter(r)
    \/ \E r \in Reqs : CacheLookup(r)
    \/ \E r \in Reqs : ThrottleEnter(r)
    \/ \E r \in Reqs : ThrottleAcquire(r)
    \/ \E r \in Reqs : Cancel(r)
    \/ \E r \in Reqs : ThrottleWake(r)
    \/ \E r \in Reqs, reply \in ThrottledReplies : UpstreamRoundTrip(r, reply)
    \/ \E r \in Reqs : ThrottleRelease(r)
    \/ \E r \in Reqs : CacheReturn(r)
    \/ \E r \in Reqs : CoalescerComplete(r)
    \/ \E r \in Reqs : Respond(r)

SpecFair == Init /\ [][NextThrottle]_vars /\ Fairness

LegacyStart == InitLegacy /\ HeadersIdle /\ ReqIdle

SpecLegacy == LegacyStart /\ [][NextLegacy]_vars

FoundStart == InitFound /\ HeadersIdle /\ ReqIdle

SpecFound == FoundStart /\ [][NextFound]_vars

-----------------------------------------------------------------------------
(* Claims                                                                  *)

Executing == {"cache", "throttle", "acquire", "blocked", "granted", "upstream",
              "release", "cacheReturn", "complete"}
Returned == {"respond", "done"}
Identical(r, q) == R[r].key = R[q].key /\ R[r].token = R[q].token
IsWaiterOf(q, e) == e # q /\ R[q].leader = e

\* C1: of the identical requests of one partition that are in flight together,
\* only one is inside the delegate chain below the coalescer; the others never
\* call the delegate, and each is handed a copy of the executor's outcome
\* (same status, headers, body, error) in a buffer of its own.
C1_CoalescedOnce ==
    /\ \A r, q \in Reqs :
          (r # q /\ Identical(r, q) /\ R[r].pc \in Executing) => R[q].pc \notin Executing
    /\ \A q \in Reqs : \A e \in Reqs :
          (IsWaiterOf(q, e) /\ R[q].pc \in Returned) =>
              /\ R[e].pc \in Returned
              /\ R[q].calls = 0
              /\ R[e].calls <= 1
              /\ R[q].resp.kind = R[e].resp.kind
              /\ R[q].mode = waiterMode(R[q].resp)
    /\ \A q \in Reqs : \A e \in Reqs :
          (IsWaiterOf(q, e) /\ R[q].pc = "respond" /\ R[e].pc = "respond") =>
              /\ R[q].resp.code = R[e].resp.code
              /\ R[q].resp.hdr = R[e].resp.hdr
              /\ R[q].resp.call = R[e].resp.call
              /\ R[q].resp.err = R[e].resp.err
              /\ R[q].resp.kind = "resp" =>
                    (R[q].resp.buf = q /\ R[q].resp.buf # R[e].resp.buf)

C1_Witness ==
    \E q, e \in Reqs :
        /\ IsWaiterOf(q, e)
        /\ R[q].pc = "respond" /\ R[e].pc = "respond"
        /\ R[q].resp.kind = "resp" /\ R[q].resp.call = e
        /\ R[e].calls = 1

\* C2: at no time do more than maxConcurrency requests of one throttlingTransport
\* execute the delegate; the others that entered wait.
C2_AtMostK ==
    \A k \in PartitionKeys :
        Cardinality({r \in Reqs : R[r].key = k /\ R[r].pc = "upstream"}) <= MaxConcurrency

C2_Witness ==
    \E r, q \in Reqs :
        /\ R[r].key = R[q].key
        /\ R[r].pc = "upstream"
        /\ R[q].pc = "blocked"

\* C3: a response that did not come from the coalescer came from an upstream
\* round trip of its own (a cached entry is never served without one); a request
\* without a token that finds no entry and is answered 200 is classified MISS
\* and its response is stored once it returned; a request that finds an entry
\* and is answered 304 is classified REVALIDATED.
C3_AlwaysRevalidated ==
    \A r \in Reqs :
        (R[r].pc \in Returned /\ R[r].leader = r) =>
            /\ R[r].resp.kind = "resp" => R[r].calls = 1
            /\ (~R[r].hit /\ R[r].token = Empty /\ R[r].upCode = 200) =>
                   /\ R[r].mode = ModeMiss
                   /\ R[r].pc = "done" => R[r].stored
            /\ (R[r].hit /\ R[r].upCode = StatusNotModified) =>
                   R[r].mode = ModeRevalidated

C3_Witness ==
    \E a, b \in Reqs :
        /\ a # b /\ Identical(a, b)
        /\ R[a].pc = "done" /\ R[a].token = Empty /\ R[a].mode = ModeMiss /\ R[a].stored
        /\ R[b].pc = "done" /\ R[b].leader = b /\ R[b].hit
        /\ R[b].calls = 1 /\ R[b].upCode = StatusNotModified
        /\ R[b].mode = ModeRevalidated

\* C4: after a sweep at time t, a directory whose metadata expires before t is
\* gone, one whose metadata expires after t is as it was, and one without a
\* metadata file is as it was.
C4_PruneByExpiry ==
    sweep.n = 1 =>
        \A d \in Dirs :
            LET pre == sweep.pre[d] IN
            /\ (pre.kind = "dir" /\ pre.meta.k = "json"
                   /\ pre.meta.sec * TicksPerSec < sweep.at) => fs[d].kind = "absent"
            /\ (pre.kind = "dir" /\ pre.meta.k = "json"
                   /\ pre.meta.sec * TicksPerSec > sweep.at) => fs[d] = pre
            /\ (pre.kind = "dir" /\ pre.meta.k = "none") => fs[d] = pre

C4_Witness ==
    /\ sweep.n = 1
    /\ \E d1, d2, d3 \in Dirs :
          /\ sweep.pre[d1].kind = "dir" /\ sweep.pre[d1].meta.k = "json"
          /\ sweep.pre[d1].meta.sec * TicksPerSec < sweep.at
          /\ fs[d1].kind = "absent"
          /\ sweep.pre[d2].kind = "dir" /\ sweep.pre[d2].meta.k = "json"
          /\ sweep.pre[d2].meta.sec * TicksPerSec > sweep.at
          /\ fs[d2].kind = "dir"
          /\ sweep.pre[d3].kind = "dir" /\ sweep.pre[d3].meta.k = "none"
          /\ fs[d3].kind = "dir"

HasToken(s, tok) == \E i \in 1..Len(s) : s[i] = tok

\* C5: cacheResponseMode is NO-STORE when Cache-Control holds no-store, else
\* REVALIDATED when the Status header says 304 Not Modified, else CHANGED when
\* X-Conditional-Request is set, else MISS; never ERROR or COALESCED.
C5_ClassifierPrecedence ==
    hpc = "classified" =>
        LET h == hup.hdr
            noStore == HasToken(h.CacheControl, "no-store")
            notModified == h.Status = NotModifiedStatus
            marker == h.XConditionalRequest # Empty
        IN  /\ noStore => hmode = ModeNoStore
            /\ (~noStore /\ notModified) => hmode = ModeRevalidated
            /\ (~noStore /\ ~notModified /\ marker) => hmode = ModeChanged
            /\ (~noStore /\ ~notModified /\ ~marker) => hmode = ModeMiss
            /\ hmode \notin {ModeError, ModeCoalesced}

C5_Witness ==
    /\ hpc = "classified"
    /\ hup.hdr.CacheControl = PrivateNoStore
    /\ hup.hdr.Status = NotModifiedStatus
    /\ hup.hdr.XConditionalRequest # Empty
    /\ hmode = ModeNoStore

\* C6: for a request that is not to the GraphQL endpoint, the response of
\* upstreamTransport.RoundTrip has Cache-Control: no-store and no creation date
\* for a status >= 400, Cache-Control: no-cache and a creation date for 200,
\* Cache-Control: no-cache and no creation date for 304.
C6_PolicyByStatus ==
    (hpc = "policy" /\ hreq.path \in {ReposPath, ReposGraphqlPath}) =>
        /\ hup.code >= 400 =>
              (hout.hdr.CacheControl = NoStore /\ hout.hdr.XProwRequestDate = Empty)
        /\ hup.code = 200 =>
              (hout.hdr.CacheControl = NoCache /\ hout.hdr.XProwRequestDate # Empty)
        /\ hup.code = 304 =>
              (hout.hdr.CacheControl = NoCache /\ hout.hdr.XProwRequestDate = Empty)

C6_Witness ==
    /\ hpc = "policy"
    /\ hreq.path = ReposGraphqlPath
    /\ hup.code = 304
    /\ hup.hdr.CacheControl = GitHubDefaultCacheControl
    /\ hout.hdr.CacheControl = NoCache
    /\ hout.hdr.XProwRequestDate = Empty

\* C7: whatever the interleaving of first requests with the same partition key,
\* one chain at most is constructed for the key, and every request with the key
\* is handed to that chain.
C7_ChainBuiltOnce ==
    /\ \A k \in PartitionKeys : built[k] <= 1 /\ (registry[k] <=> built[k] = 1)
    /\ \A r \in Reqs : R[r].pc \notin {"idle", "route", "construct"} => R[r].chain = 1

C7_Witness ==
    \E r, q \in Reqs :
        /\ r # q /\ R[r].key = R[q].key
        /\ R[r].lookedEmpty /\ R[q].lookedEmpty
        /\ R[r].chain = 1 /\ R[q].chain = 1
        /\ built[R[r].key] = 1

\* C8: a request whose caller cancelled while it waited for a permit is not
\* handed to the delegate.
C8_CancelledNeverCalls ==
    \A r \in Reqs : R[r].cancelled => (R[r].pc # "upstream" /\ R[r].calls = 0)

\* C9: a coalescing key is in the live-request index only while its executor is
\* in flight and is removed once, when the delegate call returned; no request
\* waits on an executor that completed, so an identical request that arrives
\* later executes afresh.
C9_RemovedOnce ==
    /\ \A k \in PartitionKeys, t \in Tokens :
          live[k][t] # 0 =>
              /\ R[live[k][t]].pc \in Executing
              /\ R[live[k][t]].key = k /\ R[live[k][t]].token = t
    /\ \A r \in Reqs :
          /\ R[r].removed = (IF R[r].leader = r /\ R[r].pc \in Returned THEN 1 ELSE 0)
          /\ R[r].pc = "wait" => R[R[r].leader].pc \in Executing
          /\ (R[r].leader = r /\ R[r].pc = "respond" /\ R[r].resp.kind = "resp") =>
                R[r].resp.call \in {0, r}

C9_Witness ==
    \E e, q \in Reqs :
        /\ e < q /\ Identical(e, q)
        /\ R[e].pc = "done" /\ R[e].removed = 1 /\ R[e].calls = 1
        /\ R[q].leader = q /\ R[q].pc = "done" /\ R[q].calls = 1

\* C10: when the executor's delegate call returned an error, every waiter that
\* was registered is handed that same error, and none is handed a response.
C10_ErrorToEveryWaiter ==
    \A q \in Reqs : \A e \in Reqs :
        (IsWaiterOf(q, e) /\ R[e].pc \in Returned /\ R[e].resp.kind = "err") =>
            /\ R[q].pc \in Returned
            /\ R[q].resp.kind = "err"
            /\ R[q].mode = ModeError
            /\ (R[q].pc = "respond" /\ R[e].pc = "respond") => R[q].resp = R[e].resp

C10_Witness ==
    \E q, e \in Reqs :
        /\ IsWaiterOf(q, e)
        /\ R[q].pc = "respond" /\ R[e].pc = "respond"
        /\ R[q].resp.kind = "err" /\ R[q].resp.err = "upstream" /\ R[q].resp.call = e

\* C11: when the upstream delegate returned a transport error, the request made
\* one call of the delegate and no more, and what upstreamTransport.RoundTrip
\* returns, what throttlingTransport.RoundTrip returns and what the caller
\* above them is handed is that error of the delegate, with no response.
C11_TransportErrorUnchanged ==
    \A r \in Reqs :
        (R[r].upCode = TransportError
            /\ R[r].pc \in {"release", "cacheReturn", "complete", "respond"}) =>
                /\ R[r].calls = 1
                /\ R[r].resp = Err("upstream", r)

C11_Witness ==
    \E r \in Reqs :
        /\ R[r].upCode = TransportError
        /\ R[r].pc = "cacheReturn"
        /\ R[r].calls = 1
        /\ R[r].resp.kind = "err" /\ R[r].resp.err = "upstream" /\ R[r].resp.call = r

\* C12: after writecachePartitionMetadata wrote an expiry without an error,
\* the metadata file of the data directory and the one of the temp directory
\* both read back, the way Prune reads them, as an instant in the same second as
\* the expiry written and not after it.
C12_MetadataRoundTrip ==
    (lastWrite.op = "create" /\ lastWrite.expiresAt # NilTime /\ ~lastWrite.err) =>
        \A root \in Roots :
            LET d == fs[partitionDir(root, lastWrite.key)] IN
            /\ d.kind = "dir" /\ d.meta.k = "json"
            /\ UnmarshalTime(d.meta.sec) \div TicksPerSec
                  = lastWrite.expiresAt \div TicksPerSec
            /\ UnmarshalTime(d.meta.sec) <= lastWrite.expiresAt

C12_Witness ==
    /\ lastWrite.op = "create" /\ ~lastWrite.err
    /\ lastWrite.expiresAt > 0 /\ lastWrite.expiresAt % TicksPerSec # 0
    /\ \A root \in Roots :
          /\ fs[partitionDir(root, lastWrite.key)].meta.k = "json"
          /\ UnmarshalTime(fs[partitionDir(root, lastWrite.key)].meta.sec) < lastWrite.expiresAt

\* C13: the response to a request whose path is the GraphQL endpoint (graphql,
\* /graphql or a path below it) leaves upstreamTransport.RoundTrip with
\* Cache-Control: no-store whatever the status and the headers GitHub sent; it
\* is classified NO-STORE and the cache transport does not store it.
C13_GraphqlNoStore ==
    (hpc = "policy" /\ hreq.path \in {GraphqlPath, SlashGraphqlPath, GraphqlSubPath}) =>
        /\ hout.hdr.CacheControl = NoStore
        /\ hmode = ModeNoStore
        /\ ~canStore(hout.hdr)

C13_Witness ==
    /\ hpc = "policy"
    /\ hreq.path = SlashGraphqlPath
    /\ hup.code = 200
    /\ hup.hdr.CacheControl = GitHubDefaultCacheControl
    /\ hout.hdr.CacheControl = NoStore
    /\ hmode = ModeNoStore

\* C14: the disk stores of two different partition keys never have a directory
\* in common, so that what one partition stores the other neither reads nor
\* overwrites.
C14_PartitionsIsolated ==
    \A a, b \in HeaderKeys :
        (a # b /\ part[a].open /\ part[b].open) =>
            \A root \in Roots : partitionDir(root, a) # partitionDir(root, b)

\* C15: with the Redis backend the lookup of a request, whatever its partition
\* key, finds the entry that is stored, whatever the partition key of the
\* request that stored it: there is one store for all keys.
C15_RedisSharedStore ==
    [][\A r \in Reqs :
          (backend = "redis" /\ R[r].pc = "cache" /\ R'[r].pc = "throttle") =>
              \A id \in StoreIds :
                  store[id].kind = "resp" =>
                      /\ R'[r].hit
                      /\ R'[r].cached = store[id]
                      /\ storeOf(backend, R[r].key) = id]_vars

C15_Witness ==
    \E r \in Reqs :
        /\ backend = "redis"
        /\ R[r].cached.kind = "resp"
        /\ R[r].cached.pk # R[r].key
        /\ R[r].hit

ExpiredBefore(d, t) ==
    d.kind = "dir" /\ d.meta.k = "json" /\ d.meta.sec * TicksPerSec <= t

C17_CreationFailsOpen ==
    (lastWrite.op = "create" /\ lastWrite.err) =>
        /\ part[lastWrite.key].open
        /\ registry[lastWrite.key]
        /\ \A root \in Roots :
              lastWrite.faults[root] = "ok" =>
                  fs[partitionDir(root, lastWrite.key)]
                      = Dir(JsonMeta(lastWrite.expiresAt \div TicksPerSec))

C17_Witness ==
    /\ lastWrite.op = "create" /\ lastWrite.err
    /\ lastWrite.faults["data"] = "mkdirFail"
    /\ fs[partitionDir("data", lastWrite.key)].kind = "absent"
    /\ fs[partitionDir("temp", lastWrite.key)].meta.k = "json"
    /\ part[lastWrite.key].open

C19_DeletedIffDue ==
    sweep.n = 1 =>
        \A d \in Dirs :
            LET pre == sweep.pre[d]
                failed(kind) == sweep.fault.kind = kind /\ d \in sweep.fault.dirs
                readable == pre.meta.k # "none" /\ ~failed("readFail")
                parses == pre.meta.k = "json"
                due == pre.meta.sec * TicksPerSec <= sweep.at
            IN  (pre.kind = "dir" /\ ~failed("unlisted") /\ ~failed("rmFail")) =>
                    /\ (readable /\ parses /\ due) => fs[d].kind = "absent"
                    /\ ~(readable /\ parses /\ due) => fs[d] = pre

C19_Witness ==
    /\ sweep.n = 1 /\ sweep.at > 0
    /\ \E d1, d2, d3 \in Dirs :
          /\ sweep.pre[d1].kind = "dir" /\ sweep.pre[d1].meta.k = "json"
          /\ sweep.pre[d1].meta.sec * TicksPerSec = sweep.at
          /\ fs[d1].kind = "absent"
          /\ sweep.pre[d2].meta.k = "malformed" /\ fs[d2] = sweep.pre[d2]
          /\ sweep.fault.kind = "readFail" /\ d3 \in sweep.fault.dirs
          /\ sweep.pre[d3].meta.k = "json"
          /\ sweep.pre[d3].meta.sec * TicksPerSec <= sweep.at
          /\ fs[d3] = sweep.pre[d3]

\* C20: a metadata file appears or changes only in the step that creates a
\* partition, for a key that had no chain and no store before the step, in the
\* directories of that key; a key that has its chain keeps it, so no later step
\* writes the key's metadata again, whatever a sweep deleted in between.
C20_MetadataWrittenOnce ==
    [][/\ \A k \in HeaderKeys : registry[k] => registry'[k]
       /\ \A d \in Dirs :
             (fs'[d].kind = "dir" /\ fs'[d].meta.k # "none" /\ fs'[d].meta # fs[d].meta) =>
                 /\ lastWrite'.op = "create"
                 /\ ~registry[lastWrite'.key]
                 /\ ~part[lastWrite'.key].open
                 /\ \E root \in Roots : d = partitionDir(root, lastWrite'.key)]_vars

\* The store of a registered key has just written; its temp directory has no
\* metadata file while its data directory has a truncated one, which only the
\* key's creation wrote: the temp directory was deleted by a sweep and made
\* again by the store, without metadata.
C20_Witness ==
    /\ lastWrite.op = "store"
    /\ registry[lastWrite.key] /\ part[lastWrite.key].open
    /\ fs[partitionDir("data", lastWrite.key)] = Dir(MalformedMeta)
    /\ fs[partitionDir("temp", lastWrite.key)] = Dir(NoMeta)

\* A successful response that is not a 304: the status is below 400 and not
\* 304, and the Status header, when upstream sends one, does not say 304.
SuccessNot304(resp) ==
    /\ resp.code < StatusErrorFloor
    /\ resp.code # StatusNotModified
    /\ ~Contains(resp.hdr.Status, NotModifiedStatus)

\* C21 as stated: the response of upstreamTransport.RoundTrip to a request with
\* a non-empty if-none-match token carries X-Conditional-Request equal to that
\* token; a successful non-304 response to a conditional request is classified
\* CHANGED, and the same response (upstream sent no marker of its own) to a
\* request without a token is classified MISS.
C21_MarkerDecides ==
    hpc = "policy" =>
        /\ hreq.ifNoneMatch # Empty => hout.hdr.XConditionalRequest = hreq.ifNoneMatch
        /\ (SuccessNot304(hup) /\ hreq.ifNoneMatch # Empty) => hmode = ModeChanged
        /\ (SuccessNot304(hup) /\ hreq.ifNoneMatch = Empty
                /\ hup.hdr.XConditionalRequest = Empty) => hmode = ModeMiss

\* C21, amended: the marker is stamped as stated; the classification CHANGED
\* or MISS holds for a request that is not to the GraphQL endpoint, and a
\* successful non-304 response to a GraphQL request is classified NO-STORE
\* with or without a token.
C21_MarkerDecidesOffGraphql ==
    hpc = "policy" =>
        /\ hreq.ifNoneMatch # Empty => hout.hdr.XConditionalRequest = hreq.ifNoneMatch
        /\ (SuccessNot304(hup) /\ ~IsGraphql(hreq.path) /\ hreq.ifNoneMatch # Empty) =>
              hmode = ModeChanged
        /\ (SuccessNot304(hup) /\ ~IsGraphql(hreq.path) /\ hreq.ifNoneMatch = Empty
                /\ hup.hdr.XConditionalRequest = Empty) => hmode = ModeMiss
        /\ (SuccessNot304(hup) /\ IsGraphql(hreq.path)) => hmode = ModeNoStore

C21_Witness ==
    /\ hpc = "policy"
    /\ hreq.ifNoneMatch = ETag1
    /\ hreq.path = ReposPath
    /\ hup.code = 200
    /\ hup.hdr.XConditionalRequest = Empty
    /\ hup.hdr.CacheControl = GitHubDefaultCacheControl
    /\ hout.hdr.XConditionalRequest = ETag1
    /\ hmode = ModeChanged

\* The requests of key k that hold a permit of its throttlingTransport.
Holders(k) == {r \in Reqs : R[r].key = k /\ R[r].pc \in {"granted", "upstream", "release"}}

\* Request r is inside throttlingTransport.RoundTrip and Acquire has not returned.
Waiting(r) == R[r].pc \in {"acquire", "blocked", "granted"}

\* Request r is inside throttlingTransport.RoundTrip.
InThrottle(r) == Waiting(r) \/ R[r].pc \in {"upstream", "release"}

\* C22: the throttle leaks no permit and starves no one. The permits taken are
\* at every moment those of the requests between admission and the return of
\* the delegate call; a request leaves the wait for admission by being
\* admitted only; under fair scheduling, with delegate calls that terminate,
\* there is a moment from which no request is inside the throttle any more:
\* every one that waited was admitted and has returned; when no request is
\* inside, every gate has maxConcurrency free permits.
C22_NoLeakNoStarve ==
    /\ [](\A k \in PartitionKeys : sem[k] = Cardinality(Holders(k)))
    /\ []((\A r \in Reqs : ~InThrottle(r)) =>
              \A k \in PartitionKeys : MaxConcurrency - sem[k] = MaxConcurrency)
    /\ [][\A r \in Reqs : (Waiting(r) /\ ~Waiting(r)') => R'[r].pc = "upstream"]_vars
    /\ <>[](\A r \in Reqs : ~InThrottle(r))

C22_Witness ==
    \E r, q \in Reqs :
        /\ R[r].key = R[q].key
        /\ R[r].pc = "done" /\ R[r].calls = 1 /\ R[r].upCode = TransportError
        /\ R[q].pc = "upstream" /\ R[q].cancelled
        /\ sem[R[r].key] = 1

\* C23: with legacyDisablePartitioningByAuthHeader set, every partition key is
\* handed the one disk store whose BasePath is cacheDir/data and whose TempDir
\* is cacheDir/temp; no step writes a metadata file or changes a directory under
\* the roots, whatever expiry a key came with and however much time passes, and
\* no file of the store goes away.
C23_LegacyOneStore ==
    /\ [](\A k \in HeaderKeys :
            part[k].open => (part[k].base = <<"data">> /\ part[k].temp = <<"temp">>))
    /\ [][diskCache.legacy =>
            (fs' = fs /\ diskCache.files \subseteq diskCache'.files)]_vars

C23_Witness ==
    /\ diskCache.legacy
    /\ clock = MaxTick
    /\ part["k1"].open /\ part["k2"].open
    /\ part["k1"].base = part["k2"].base /\ part["k1"].temp = part["k2"].temp
    /\ lastWrite.op = "create" /\ lastWrite.key = "k2" /\ lastWrite.expiresAt = 0
    /\ diskCache.files = Urls
    /\ fs[<<"data", "k1">>] = Dir(JsonMeta(0))
    /\ fs[<<"data", "k2">>] = Absent /\ fs[<<"temp", "k2">>] = Absent

\* C24: a sweep of Prune leaves in place every partition directory whose
\* metadata file parses and holds no expiry (expires_at missing or null), as
\* it leaves a directory without a metadata file.
C24_NoExpiryNeverPruned ==
    sweep.n = 1 =>
        \A d \in Dirs :
            (sweep.pre[d].kind = "dir" /\ sweep.pre[d].meta.k \in {"null", "none"}) =>
                fs[d] = sweep.pre[d]

====
